---- MODULE Spec2Model ----
(***************************************************************************)
(* A model of the NameVetter backend (src/frontend/server.py): the domain  *)
(* cascade check_domain, the social classifier check_social_platform, the  *)
(* similar-domain finder find_similar_domains with levenshtein, and the    *)
(* fan-out / fan-in of the /api/check handler check_name.                  *)
(* The server is modelled while it serves one request.  Strings are TLA+   *)
(* strings; a character is a string of length 1.                           *)
(***************************************************************************)
EXTENDS Naturals, Sequences, FiniteSets, TLC

VARIABLES
    pc,         \* position of the request handler
    request,    \* the JSON body of the request being served
    response,   \* [code, body] once the handler has returned; code 0 before
    results,    \* the dict `results` built by check_name
    future,     \* state of each work item submitted to the executor
    call,       \* the call each work item was submitted with
    cursor,     \* how many futures the collection loops of check_name have consumed
    waited,     \* logical seconds check_name has spent in waits that expired
    invoked     \* the lookups made so far, each with its outcome and what was returned

vars == <<pc, request, response, results, future, call, cursor, waited, invoked>>

(***************************************************************************)
(* Bounds of the model.                                                    *)
(***************************************************************************)
\* longest name drawn for /api/check in SpecNames
MaxNameLen == 3
\* how many slots of one report may get a synthesized result
MaxSynthesized == 2
\* how many domain work items of one request may reach their DNS step in SpecTasks
MaxDnsCalls == 2
\* longest freely chosen part of the list the domain index returns in SpecSimilar
MaxIndexLen == 3
\* longest string measured in SpecLevenshtein
MaxWordLen == 3

(***************************************************************************)
(* Configuration (server.py lines 25-73).                                  *)
(***************************************************************************)
DOMAIN_EXTENSIONS == <<".com", ".co", ".io", ".net", ".org", ".ai">>

SOCIAL_PLATFORMS ==
    <<"Instagram", "TikTok", "YouTube", "X (Twitter)", "Facebook", "LinkedIn", "Threads">>

max_workers == 8
DOMAIN_RESULT_TIMEOUT == 15
SOCIAL_RESULT_TIMEOUT == 15
SIMILAR_RESULT_TIMEOUT == 10

Range(s) == {s[i] : i \in 1..Len(s)}

(***************************************************************************)
(* Strings.                                                                *)
(***************************************************************************)
Char(s, i) == SubSeq(s, i, i)

UPPERCASE == "ABCDEFGHIJKLMNOPQRSTUVWXYZ"
LOWERCASE == "abcdefghijklmnopqrstuvwxyz"
DIGITS == "0123456789"
WHITESPACE == {" ", "\t", "\n", "\r"}

\* str.lower() on one character
LowerChar(c) ==
    IF \E i \in 1..Len(UPPERCASE) : Char(UPPERCASE, i) = c
    THEN Char(LOWERCASE, CHOOSE i \in 1..Len(UPPERCASE) : Char(UPPERCASE, i) = c)
    ELSE c

RECURSIVE Lower(_)
Lower(s) == IF s = "" THEN "" ELSE LowerChar(Char(s, 1)) \o Lower(SubSeq(s, 2, Len(s)))

RECURSIVE Strip(_)
\* str.strip(): leading and trailing whitespace removed
Strip(s) ==
    IF s = "" THEN ""
    ELSE IF Char(s, 1) \in WHITESPACE THEN Strip(SubSeq(s, 2, Len(s)))
    ELSE IF Char(s, Len(s)) \in WHITESPACE THEN Strip(SubSeq(s, 1, Len(s) - 1))
    ELSE s

\* the characters the class [a-z0-9] matches
InClass_a_z0_9(c) ==
    \/ \E i \in 1..Len(LOWERCASE) : Char(LOWERCASE, i) = c
    \/ \E i \in 1..Len(DIGITS) : Char(DIGITS, i) = c

RECURSIVE StripNonAlnum(_)
\* re.sub(r"[^a-z0-9]", "", s)
StripNonAlnum(s) ==
    IF s = "" THEN ""
    ELSE (IF InClass_a_z0_9(Char(s, 1)) THEN Char(s, 1) ELSE "")
            \o StripNonAlnum(SubSeq(s, 2, Len(s)))

\* a normalization that forgets to lowercase
NormalizeWithoutLower(name) == StripNonAlnum(name)

\* line 341: handle = re.sub(r"[^a-z0-9]", "", name.lower())
Normalize(name) == StripNonAlnum(Lower(name))

(***************************************************************************)
(* The work items of one /api/check request, in submission order, which   *)
(* is also the order in which check_name collects them.                    *)
(***************************************************************************)
Tasks == DOMAIN_EXTENSIONS \o SOCIAL_PLATFORMS \o <<"similar">>
TaskSet == Range(Tasks)
Index(k) == CHOOSE i \in 1..Len(Tasks) : Tasks[i] = k

\* the value a completed call returned, left uninterpreted
ResultOf(c) == [returned_by |-> c]
TIMEOUT_RESULT == [status |-> "unknown", method |-> "timeout"]

NoResults == [name |-> "", handle |-> "", domains |-> <<>>, social |-> <<>>,
              similar |-> <<>>, timestamp |-> ""]

NoResponse == [code |-> 0, body |-> <<>>]

Init ==
    /\ pc = "idle"
    /\ request = [route |-> "none"]
    /\ response = NoResponse
    /\ results = NoResults
    /\ future = [k \in TaskSet |-> "none"]
    /\ call = [k \in TaskSet |-> <<>>]
    /\ cursor = 0
    /\ waited = 0
    /\ invoked = <<>>

(***************************************************************************)
(* check_name, lines 336-365: validation and fan-out.                      *)
(***************************************************************************)
\* lines 336-339
NameMissing(name) == Strip(name) = ""
\* a second check that repeats the first
HandleMissingUnchecked(name) == Strip(name) = ""

\* lines 341-343
HandleMissing(name) == Normalize(Strip(name)) = ""

\* lines 338-339 and 342-343: the two 400 responses
CheckNameReject(name) ==
    /\ pc = "idle"
    /\ NameMissing(name) \/ HandleMissing(name)
    /\ request' = [route |-> "/api/check", name |-> name]
    /\ response' = [code |-> 400,
                    body |-> IF NameMissing(name)
                             THEN [error |-> "Name is required"]
                             ELSE [error |-> "Name must contain alphanumeric characters"]]
    /\ pc' = "done"
    /\ UNCHANGED <<results, future, call, cursor, waited, invoked>>

\* a fan-out that submits every domain check on the first extension
SubmittedCallFirstExtension(k, handle) ==
    IF k \in Range(DOMAIN_EXTENSIONS) THEN <<"check_domain", handle \o DOMAIN_EXTENSIONS[1]>>
    ELSE IF k \in Range(SOCIAL_PLATFORMS) THEN <<"check_social_platform", k, handle>>
    ELSE <<"find_similar_domains", handle>>

\* lines 357-365: the calls handed to executor.submit
SubmittedCall(k, handle) ==
    IF k \in Range(DOMAIN_EXTENSIONS) THEN <<"check_domain", handle \o k>>
    ELSE IF k \in Range(SOCIAL_PLATFORMS) THEN <<"check_social_platform", k, handle>>
    ELSE <<"find_similar_domains", handle>>

\* lines 345-365: results initialised, every work item submitted
CheckNameFanOut(name) ==
    /\ pc = "idle"
    /\ ~NameMissing(name)
    /\ ~HandleMissing(name)
    /\ request' = [route |-> "/api/check", name |-> name]
    /\ LET handle == Normalize(Strip(name)) IN
        /\ results' = [NoResults EXCEPT !.name = Strip(name), !.handle = handle,
                                        !.timestamp = "now"]
        /\ call' = [k \in TaskSet |-> SubmittedCall(k, handle)]
    /\ future' = [k \in TaskSet |-> "queued"]
    /\ pc' = "collect"
    /\ UNCHANGED <<response, cursor, waited, invoked>>

(***************************************************************************)
(* The ThreadPoolExecutor of line 355.                                     *)
(***************************************************************************)
Running == {k \in TaskSet : future[k] = "running"}
Unfinished == {k \in TaskSet : future[k] \in {"queued", "running"}}

\* a worker thread takes the oldest queued work item
Start(k) ==
    /\ future[k] = "queued"
    /\ \A j \in TaskSet : Index(j) < Index(k) => future[j] # "queued"
    /\ Cardinality(Running) < max_workers
    /\ future' = [future EXCEPT ![k] = "running"]
    /\ UNCHANGED <<pc, request, response, results, call, cursor, waited, invoked>>

\* the futures the collection loops are done with
Collected == {Tasks[i] : i \in 1..cursor}

\* the future check_name is blocked on, if any
Awaited == IF pc = "collect" THEN {Tasks[cursor + 1]} ELSE {}

\* A completion is visible to check_name only through Future.result() and
\* the executor's shutdown, and commutes with every other step: the model
\* takes it once check_name waits on that future, or has given up on it.
Observed(k) == k \in Collected \cup Awaited

(***************************************************************************)
(* check_name, lines 367-385: fan-in.                                      *)
(***************************************************************************)
\* lines 370, 377, 383: the timeout of each Future.result() call
ResultTimeout(k) ==
    IF k \in Range(DOMAIN_EXTENSIONS) THEN DOMAIN_RESULT_TIMEOUT
    ELSE IF k \in Range(SOCIAL_PLATFORMS) THEN SOCIAL_RESULT_TIMEOUT
    ELSE SIMILAR_RESULT_TIMEOUT

\* lines 372, 379, 385: what the except branch stores
Synthesized(k) == IF k = "similar" THEN <<>> ELSE TIMEOUT_RESULT

\* lines 370, 377, 383: what the try branch stores
Stored(k) == ResultOf(call[k])

\* an except branch that stores nothing
StoreUnlessSynthesized(k, v) ==
    IF v = TIMEOUT_RESULT THEN UNCHANGED results
    ELSE IF k \in Range(DOMAIN_EXTENSIONS)
    THEN results' = [results EXCEPT !.domains = (k :> v) @@ @]
    ELSE IF k \in Range(SOCIAL_PLATFORMS)
    THEN results' = [results EXCEPT !.social = (k :> v) @@ @]
    ELSE results' = [results EXCEPT !.similar = v]

\* the assignment results[...][k] = v
Store(k, v) ==
    IF k \in Range(DOMAIN_EXTENSIONS)
    THEN results' = [results EXCEPT !.domains = (k :> v) @@ @]
    ELSE IF k \in Range(SOCIAL_PLATFORMS)
    THEN results' = [results EXCEPT !.social = (k :> v) @@ @]
    ELSE results' = [results EXCEPT !.similar = v]

\* the slots holding a synthesized result
SynthesizedSlots ==
    {k \in DOMAIN results.domains : results.domains[k] = TIMEOUT_RESULT}
        \cup {k \in DOMAIN results.social : results.social[k] = TIMEOUT_RESULT}
        \cup {k \in {"similar"} \cap Collected : results.similar = <<>>}

MaySynthesize == Cardinality(SynthesizedSlots) < MaxSynthesized

AfterCollect(k) == IF k = Tasks[Len(Tasks)] THEN "exit" ELSE "collect"

\* a completion that writes its result into the report
FinishAndStore(k) ==
    /\ future[k] = "running"
    /\ Observed(k)
    /\ future' = [future EXCEPT ![k] = "finished"]
    /\ IF k \in Collected THEN Store(k, Stored(k)) ELSE UNCHANGED results
    /\ UNCHANGED <<pc, request, response, call, cursor, waited, invoked>>

\* the call ends: the work item's future holds its result or its exception
Finish(k) ==
    /\ future[k] = "running"
    /\ Observed(k)
    /\ future' = [future EXCEPT ![k] = "finished"]
    /\ UNCHANGED <<pc, request, response, results, call, cursor, waited, invoked>>

\* Future.result(timeout) returns the value of a finished future
CollectResult(k) ==
    /\ k \in Awaited
    /\ future[k] = "finished"
    /\ Store(k, Stored(k))
    /\ cursor' = cursor + 1
    /\ pc' = AfterCollect(k)
    /\ UNCHANGED <<request, response, future, call, waited, invoked>>

\* Future.result(timeout) re-raises the exception of the work item
CollectRaised(k) ==
    /\ k \in Awaited
    /\ future[k] = "finished"
    /\ MaySynthesize
    /\ Store(k, Synthesized(k))
    /\ cursor' = cursor + 1
    /\ pc' = AfterCollect(k)
    /\ UNCHANGED <<request, response, future, call, waited, invoked>>


\* Future.result(timeout) raises TimeoutError: the future is not done when
\* the timeout has elapsed
CollectTimeout(k) ==
    /\ k \in Awaited
    /\ future[k] \in {"queued", "running"}
    /\ MaySynthesize
    /\ Store(k, Synthesized(k))
    /\ waited' = waited + ResultTimeout(k)
    /\ cursor' = cursor + 1
    /\ pc' = AfterCollect(k)
    /\ UNCHANGED <<request, response, future, call, invoked>>

\* line 355 (end of the with block) and line 387: the executor's __exit__
\* is shutdown(wait=True), which joins every worker; then the report is sent
Return ==
    /\ pc = "exit"
    /\ Unfinished = {}
    /\ response' = [code |-> 200, body |-> results]
    /\ pc' = "done"
    /\ UNCHANGED <<request, results, future, call, cursor, waited, invoked>>

(***************************************************************************)
(* Domain checking, lines 84-183.  What the network answers is an input:   *)
(* each method is an operator from the outcome of its lookup to the dict   *)
(* it returns.                                                             *)
(***************************************************************************)
Take(s, n) == SubSeq(s, 1, IF Len(s) < n THEN Len(s) ELSE n)

\* dict.get(key, default)
Get(obj, key, default) == IF key \in DOMAIN obj THEN obj[key] ELSE default

Has(seq, x) == \E i \in 1..Len(seq) : seq[i] = x

RECURSIVE FnItems(_, _)
\* lines 102-104: for item in vcard: if item[0] == "fn": data["registrar"] = item[3]
FnItems(items, acc) ==
    IF acc.raised \/ items = <<>> THEN acc
    ELSE LET item == Head(items) IN
         IF Len(item) < 1 THEN [acc EXCEPT !.raised = TRUE]
         ELSE IF item[1] # "fn" THEN FnItems(Tail(items), acc)
         ELSE IF Len(item) < 4 THEN [acc EXCEPT !.raised = TRUE]
         ELSE FnItems(Tail(items),
                      [acc EXCEPT !.data = ("registrar" :> item[4]) @@ @])

RECURSIVE Entities(_, _)
\* lines 99-104
Entities(entities, acc) ==
    IF acc.raised \/ entities = <<>> THEN acc
    ELSE LET entity == Head(entities) IN
         IF ~Has(Get(entity, "roles", <<>>), "registrar")
         THEN Entities(Tail(entities), acc)
         ELSE LET vcardArray == Get(entity, "vcardArray", <<"", <<>>>>) IN
              IF Len(vcardArray) < 2 THEN [acc EXCEPT !.raised = TRUE]
              ELSE Entities(Tail(entities), FnItems(vcardArray[2], acc))

RECURSIVE Events(_, _)
\* lines 106-110
Events(events, acc) ==
    IF acc.raised \/ events = <<>> THEN acc
    ELSE LET event == Head(events)
             date == Take(Get(event, "eventDate", ""), 10)
             action == Get(event, "eventAction", "")
         IN Events(Tail(events),
                   [acc EXCEPT !.data =
                       IF action = "registration" THEN ("registered" :> date) @@ @
                       ELSE IF action = "expiration" THEN ("expires" :> date) @@ @
                       ELSE @])

\* lines 95-112: the data extracted from the body of a 200 response; an
\* exception anywhere in the extraction ends it and keeps what was stored
RdapData(body) ==
    IF ~body.json THEN <<>>
    ELSE LET j == body.value
             afterEntities == Entities(Get(j, "entities", <<>>), [data |-> <<>>, raised |-> FALSE])
         IN Events(Get(j, "events", <<>>), afterEntities).data

\* an RDAP lookup whose body parsing is not guarded by the inner try
check_domain_rdapUnguardedParse(o) ==
    IF o.kind = "exception"
    THEN [status |-> "unknown", method |-> "rdap_error",
          details |-> [error |-> Take(o.message, 100)]]
    ELSE IF o.status_code = 200
    THEN IF ~o.body.json
         THEN [status |-> "unknown", method |-> "rdap_error",
               details |-> [error |-> "Expecting value"]]
         ELSE [status |-> "taken", method |-> "rdap", details |-> RdapData(o.body)]
    ELSE IF o.status_code = 404
    THEN [status |-> "available", method |-> "rdap", details |-> <<>>]
    ELSE [status |-> "unknown", method |-> "rdap",
          details |-> [http_status |-> o.status_code]]

\* lines 84-119
check_domain_rdap(o) ==
    IF o.kind = "exception"
    THEN [status |-> "unknown", method |-> "rdap_error",
          details |-> [error |-> Take(o.message, 100)]]
    ELSE IF o.status_code = 200
    THEN [status |-> "taken", method |-> "rdap", details |-> RdapData(o.body)]
    ELSE IF o.status_code = 404
    THEN [status |-> "available", method |-> "rdap", details |-> <<>>]
    ELSE [status |-> "unknown", method |-> "rdap",
          details |-> [http_status |-> o.status_code]]

\* lines 122-132
check_domain_dns(o) ==
    IF o.kind = "resolved"
    THEN [status |-> "taken", method |-> "dns", details |-> [ip |-> o.ip]]
    ELSE IF o.kind = "gaierror"
    THEN [status |-> "likely_available", method |-> "dns", details |-> <<>>]
    ELSE [status |-> "unknown", method |-> "dns_error", details |-> <<>>]

\* the "in" operator on strings
Contains(s, sub) ==
    \E i \in 1..(Len(s) + 1 - Len(sub)) : SubSeq(s, i, i + Len(sub) - 1) = sub

\* lines 142-149: a python-whois field is None, one value or a list of values
Truthy(f) == f # <<>>
First(f) == f[1]

\* lines 141-150
WhoisDetails(w) ==
    (IF Truthy(w.registrar) THEN ("registrar" :> First(w.registrar)) ELSE <<>>)
    @@ (IF Truthy(w.creation_date)
        THEN ("registered" :> Take(First(w.creation_date), 10)) ELSE <<>>)
    @@ (IF Truthy(w.expiration_date)
        THEN ("expires" :> Take(First(w.expiration_date), 10)) ELSE <<>>)

\* lines 135-157
check_domain_whois(o) ==
    IF o.kind = "record"
    THEN IF Truthy(o.domain_name)
         THEN [status |-> "taken", method |-> "whois", details |-> WhoisDetails(o)]
         ELSE [status |-> "available", method |-> "whois", details |-> <<>>]
    ELSE LET err_str == Lower(o.message) IN
         IF \/ Contains(err_str, "no match")
            \/ Contains(err_str, "not found")
            \/ Contains(err_str, "no entries")
         THEN [status |-> "available", method |-> "whois", details |-> <<>>]
         ELSE [status |-> "unknown", method |-> "whois_error",
               details |-> [error |-> Take(o.message, 100)]]

\* a cascade that stops only on "taken"
ConclusiveOnlyTaken(result) == result.status = "taken"

\* lines 168 and 173: result["status"] in ("taken", "available")
Conclusive(result) == result.status \in {"taken", "available"}

\* a DNS step whose "likely_available" is returned as it is
AfterDnsUnpromoted(result3) ==
    IF result3.status \in {"taken", "likely_available"} THEN result3
    ELSE [status |-> "unknown", method |-> "all_failed", details |-> <<>>]

\* a DNS step whose own failure is returned as it is
AfterDnsKeepsDnsError(result3) ==
    IF result3.status = "likely_available"
    THEN [status |-> "available", method |-> "dns_inferred", details |-> result3.details]
    ELSE result3

\* lines 178-183: what check_domain returns after the DNS step
AfterDns(result3) ==
    IF result3.status = "taken" THEN result3
    ELSE IF result3.status = "likely_available"
    THEN [status |-> "available", method |-> "dns_inferred", details |-> result3.details]
    ELSE [status |-> "unknown", method |-> "all_failed", details |-> <<>>]

(***************************************************************************)
(* The outcomes of the three lookups.                                      *)
(***************************************************************************)
RegistrarEntity(fns) ==
    [roles |-> <<"registrar">>,
     vcardArray |-> <<"vcard", <<<<"version", "{}", "text", "4.0">>>>
                                \o [i \in 1..Len(fns) |-> <<"fn", "{}", "text", fns[i]>>]>>]

RdapBodies ==
    { [json |-> FALSE],
      [json |-> TRUE, value |-> <<>>],
      [json |-> TRUE,
       value |-> [entities |-> <<[roles |-> <<"abuse">>],
                                 RegistrarEntity(<<"Example Registrar Inc.">>)>>,
                  events |-> <<[eventAction |-> "registration",
                                eventDate |-> "2020-01-15T00:00:00Z"],
                               [eventAction |-> "expiration",
                                eventDate |-> "2030-01-15T00:00:00Z"],
                               [eventAction |-> "last changed"]>>]],
      [json |-> TRUE,
       value |-> [entities |-> <<RegistrarEntity(<<"First Name", "Second Name">>),
                                 RegistrarEntity(<<"Other Registrar">>)>>]],
      [json |-> TRUE,
       value |-> [entities |-> <<RegistrarEntity(<<"Kept Registrar">>),
                                 [roles |-> <<"registrar">>,
                                  vcardArray |-> <<"vcard", <<<<"fn">>>>>>]>>,
                  events |-> <<[eventAction |-> "registration",
                                eventDate |-> "2020-01-15T00:00:00Z"]>>]] }

RdapOutcomes ==
    {[kind |-> "response", status_code |-> 200, body |-> b] : b \in RdapBodies}
    \cup {[kind |-> "response", status_code |-> c, body |-> [json |-> FALSE]] :
            c \in {404, 429, 500}}
    \cup {[kind |-> "exception", message |-> m] :
            m \in {"HTTPSConnectionPool: Read timed out.", "Connection refused"}}

WhoisOutcomes ==
    { [kind |-> "record", domain_name |-> <<"EXAMPLE.COM">>,
       registrar |-> <<"Example Registrar Inc.">>,
       creation_date |-> <<"2020-01-15 00:00:00", "2020-01-16 00:00:00">>,
       expiration_date |-> <<"2030-01-15 00:00:00">>],
      [kind |-> "record", domain_name |-> <<"example.com">>,
       registrar |-> <<>>, creation_date |-> <<>>, expiration_date |-> <<>>],
      [kind |-> "record", domain_name |-> <<>>,
       registrar |-> <<>>, creation_date |-> <<>>, expiration_date |-> <<>>] }
    \cup {[kind |-> "exception", message |-> m] :
            m \in {"No match for \"EXAMPLE.COM\".", "Domain NOT FOUND",
                   "No entries found", "No module named 'whois'", "timed out"}}

DnsOutcomes ==
    { [kind |-> "resolved", ip |-> "93.184.216.34"],
      [kind |-> "gaierror"],
      [kind |-> "exception"] }

(***************************************************************************)
(* /api/check-domain, lines 390-398, with check_domain (lines 160-183)     *)
(* taken one method call at a time.                                        *)
(***************************************************************************)
\* line 398: {"domain": domain, **result}
DomainResponse(result) ==
    [code |-> 200, body |-> result @@ [domain |-> request.domain]]

\* lines 393-396
CheckDomainReject(raw) ==
    /\ pc = "idle"
    /\ Lower(Strip(raw)) = ""
    /\ request' = [route |-> "/api/check-domain", domain |-> ""]
    /\ response' = [code |-> 400, body |-> [error |-> "Domain is required"]]
    /\ pc' = "done"
    /\ UNCHANGED <<results, future, call, cursor, waited, invoked>>

\* lines 393-397: check_domain is entered
CheckDomainAccept(raw) ==
    /\ pc = "idle"
    /\ Lower(Strip(raw)) # ""
    /\ request' = [route |-> "/api/check-domain", domain |-> Lower(Strip(raw))]
    /\ pc' = "rdap"
    /\ UNCHANGED <<response, results, future, call, cursor, waited, invoked>>

\* lines 167-169
StepRdap(o) ==
    /\ pc = "rdap"
    /\ LET result == check_domain_rdap(o) IN
        /\ invoked' = Append(invoked, [method |-> "rdap", outcome |-> o, result |-> result])
        /\ IF Conclusive(result)
           THEN response' = DomainResponse(result) /\ pc' = "done"
           ELSE UNCHANGED response /\ pc' = "whois"
    /\ UNCHANGED <<request, results, future, call, cursor, waited>>

\* lines 172-174
StepWhois(o) ==
    /\ pc = "whois"
    /\ LET result2 == check_domain_whois(o) IN
        /\ invoked' = Append(invoked, [method |-> "whois", outcome |-> o, result |-> result2])
        /\ IF Conclusive(result2)
           THEN response' = DomainResponse(result2) /\ pc' = "done"
           ELSE UNCHANGED response /\ pc' = "dns"
    /\ UNCHANGED <<request, results, future, call, cursor, waited>>

\* lines 177-183
StepDns(o) ==
    /\ pc = "dns"
    /\ LET result3 == check_domain_dns(o) IN
        /\ invoked' = Append(invoked, [method |-> "dns", outcome |-> o, result |-> result3])
        /\ response' = DomainResponse(AfterDns(result3))
    /\ pc' = "done"
    /\ UNCHANGED <<request, results, future, call, cursor, waited>>

SampleDomains == {"", "  ", " Example.COM "}

(***************************************************************************)
(* Social media checking, lines 188-286.  The outcome of the GET is an     *)
(* input: a response (status code, final URL, body) or an exception,       *)
(* given by the classes of requests.exceptions it is an instance of.       *)
(***************************************************************************)
Verdict(status, method) == [status |-> status, method |-> method]

\* an Instagram branch that looks for the login path in the body
InstagramLoginFromBody(o) ==
    IF o.status_code = 404 THEN Verdict("available", "http_404")
    ELSE IF o.status_code = 200
    THEN IF Contains(o.text, "/accounts/login")
         THEN Verdict("unknown", "login_redirect")
         ELSE Verdict("taken", "http_200")
    ELSE Verdict("", "")

\* lines 205-214
Instagram(o) ==
    IF o.status_code = 404 THEN Verdict("available", "http_404")
    ELSE IF o.status_code = 200
    THEN IF Contains(o.url, "/accounts/login")
         THEN Verdict("unknown", "login_redirect")
         ELSE Verdict("taken", "http_200")
    ELSE Verdict("", "")

\* lines 216-224
TikTok(o) ==
    IF o.status_code = 404 THEN Verdict("available", "http_404")
    ELSE IF o.status_code = 200
    THEN LET text_lower == Lower(Take(o.text, 5000)) IN
         IF \/ Contains(text_lower, "couldn't find this account")
            \/ (Contains(text_lower, "this account") /\ Contains(text_lower, "exist"))
         THEN Verdict("available", "page_content")
         ELSE Verdict("taken", "http_200")
    ELSE Verdict("", "")

\* lines 226-232
YouTube(o) ==
    IF o.status_code = 404 THEN Verdict("available", "http_404")
    ELSE IF o.status_code = 200
    THEN IF \/ Contains(Take(o.text, 5000), "This page isn")
            \/ Contains(Take(o.text, 2000), "404")
         THEN Verdict("available", "page_content")
         ELSE Verdict("taken", "http_200")
    ELSE Verdict("", "")

\* lines 234-244
Twitter(o) ==
    IF o.status_code = 404 THEN Verdict("available", "http_404")
    ELSE IF o.status_code = 200
    THEN LET text_sample == Lower(Take(o.text, 5000)) IN
         IF \/ Contains(text_sample, "this account doesn")
            \/ Contains(text_sample, "doesn't exist")
         THEN Verdict("available", "page_content")
         ELSE Verdict("taken", "http_200")
    ELSE IF o.status_code \in {301, 302, 303} THEN Verdict("unknown", "redirect")
    ELSE Verdict("", "")

\* lines 246-253
Facebook(o) ==
    IF o.status_code = 404 THEN Verdict("available", "http_404")
    ELSE IF o.status_code = 200
    THEN LET text_sample == Lower(Take(o.text, 5000)) IN
         IF \/ Contains(text_sample, "page not found")
            \/ Contains(text_sample, "this content isn")
         THEN Verdict("available", "page_content")
         ELSE Verdict("taken", "http_200")
    ELSE Verdict("", "")

\* lines 255-262
LinkedIn(o) ==
    IF o.status_code = 404 THEN Verdict("available", "http_404")
    ELSE IF o.status_code = 200
    THEN IF \/ Contains(o.url, "/authwall")
            \/ Contains(Lower(Take(o.text, 3000)), "authwall")
         THEN Verdict("unknown", "authwall")
         ELSE Verdict("taken", "http_200")
    ELSE Verdict("", "")

\* lines 264-271
Threads(o) ==
    IF o.status_code = 404 THEN Verdict("available", "http_404")
    ELSE IF o.status_code = 200
    THEN LET text_sample == Lower(Take(o.text, 5000)) IN
         IF Contains(text_sample, "sorry, this page")
         THEN Verdict("available", "page_content")
         ELSE Verdict("taken", "http_200")
    ELSE Verdict("", "")

\* lines 204-271: the branch of the platform; Verdict("", "") when the
\* branch returns nothing and control falls through to line 273
PlatformSpecific(name, o) ==
    CASE name = "Instagram" -> Instagram(o)
      [] name = "TikTok" -> TikTok(o)
      [] name = "YouTube" -> YouTube(o)
      [] name = "X (Twitter)" -> Twitter(o)
      [] name = "Facebook" -> Facebook(o)
      [] name = "LinkedIn" -> LinkedIn(o)
      [] name = "Threads" -> Threads(o)
      [] OTHER -> Verdict("", "")

\* str(status_code) for the codes the model draws
StatusText(code) ==
    CASE code = 200 -> "200" [] code = 404 -> "404" [] code = 301 -> "301"
      [] code = 302 -> "302" [] code = 303 -> "303" [] code = 403 -> "403"
      [] code = 429 -> "429" [] OTHER -> "500"

\* a fallback that takes every answer other than 404 as an existing profile
GenericFallbackTakenUnless404(o) ==
    IF o.status_code = 404 THEN Verdict("available", "http_404")
    ELSE Verdict("taken", "http_200")

\* lines 273-279
GenericFallback(o) ==
    IF o.status_code = 404 THEN Verdict("available", "http_404")
    ELSE IF o.status_code = 200 THEN Verdict("taken", "http_200")
    ELSE Verdict("unknown", "http_" \o StatusText(o.status_code))

\* the except clauses with ConnectionError tried first
SocialExceptConnectionFirst(o) ==
    IF "ConnectionError" \in o.classes THEN [status |-> "unknown", method |-> "connection_error"]
    ELSE IF "Timeout" \in o.classes THEN [status |-> "unknown", method |-> "timeout"]
    ELSE [status |-> "unknown", method |-> "error", error |-> Take(o.message, 100)]

\* lines 281-286: the except clauses, tried in order
SocialExcept(o) ==
    IF "Timeout" \in o.classes THEN Verdict("unknown", "timeout")
    ELSE IF "ConnectionError" \in o.classes THEN Verdict("unknown", "connection_error")
    ELSE [status |-> "unknown", method |-> "error", error |-> Take(o.message, 100)]

\* lines 188-286
check_social_platform(name, handle, o) ==
    IF o.kind = "exception" THEN SocialExcept(o)
    ELSE LET specific == PlatformSpecific(name, o) IN
         IF specific # Verdict("", "") THEN specific ELSE GenericFallback(o)

StatusCodes == {200, 404, 301, 302, 303, 403, 500}

FinalUrls ==
    { "https://example.test/myco",
      "https://www.instagram.com/accounts/login/?next=/myco/",
      "https://www.linkedin.com/authwall?trk=x" }

Bodies ==
    { "", "<html>MyCo</html>", "Couldn't find this account",
      "This account does not EXIST", "This page isn't available", "Error 404",
      "This account doesn't exist", "Page Not Found", "This content isn't available",
      "Join now: AuthWall", "Sorry, this page isn't available." }

HttpOutcomes ==
    {[kind |-> "response", status_code |-> c, url |-> u, text |-> t] :
        c \in StatusCodes, u \in FinalUrls, t \in Bodies}
    \cup { [kind |-> "exception", classes |-> {"Timeout"}, message |-> "Read timed out."],
           [kind |-> "exception", classes |-> {"ConnectionError", "Timeout"},
            message |-> "Connect timed out."],
           [kind |-> "exception", classes |-> {"ConnectionError"},
            message |-> "Connection refused"],
           [kind |-> "exception", classes |-> {}, message |-> "Exceeded 30 redirects."] }

(***************************************************************************)
(* /api/check-social, lines 401-411.                                       *)
(***************************************************************************)
SampleHandles == {"", " MyCo "}
PlatformNames == Range(SOCIAL_PLATFORMS) \cup {"", "Mastodon"}

\* lines 405-409: no configured platform has that name
CheckSocialReject(platform_name, raw) ==
    /\ pc = "idle"
    /\ platform_name \notin Range(SOCIAL_PLATFORMS)
    /\ request' = [route |-> "/api/check-social", platform |-> platform_name,
                   handle |-> Lower(Strip(raw))]
    /\ response' = [code |-> 400,
                    body |-> [error |-> "Unknown platform: " \o platform_name]]
    /\ pc' = "done"
    /\ UNCHANGED <<results, future, call, cursor, waited, invoked>>

\* lines 405-411
CheckSocial(platform_name, raw, o) ==
    /\ pc = "idle"
    /\ platform_name \in Range(SOCIAL_PLATFORMS)
    /\ LET handle == Lower(Strip(raw))
           result == check_social_platform(platform_name, handle, o)
       IN /\ request' = [route |-> "/api/check-social", platform |-> platform_name,
                         handle |-> handle]
          /\ invoked' = <<[method |-> "get", outcome |-> o, result |-> result]>>
          /\ response' = [code |-> 200,
                          body |-> result @@ [platform |-> platform_name,
                                              handle |-> handle]]
    /\ pc' = "done"
    /\ UNCHANGED <<results, future, call, cursor, waited>>

(***************************************************************************)
(* The server while it serves one request.                                 *)
(***************************************************************************)
SampleNames == {"", "  ", " !? ", " My-2 "}

Next ==
    \/ \E name \in SampleNames : CheckNameReject(name)
    \/ \E name \in SampleNames : CheckNameFanOut(name)
    \/ \E k \in TaskSet : Start(k)
    \/ \E k \in TaskSet : Finish(k)
    \/ \E k \in TaskSet : CollectResult(k)
    \/ \E k \in TaskSet : CollectRaised(k)
    \/ \E k \in TaskSet : CollectTimeout(k)
    \/ Return
    \/ \E raw \in SampleDomains : CheckDomainReject(raw)
    \/ \E raw \in SampleDomains : CheckDomainAccept(raw)
    \/ \E o \in RdapOutcomes : StepRdap(o)
    \/ \E o \in WhoisOutcomes : StepWhois(o)
    \/ \E o \in DnsOutcomes : StepDns(o)
    \/ \E n \in PlatformNames, raw \in SampleHandles : CheckSocialReject(n, raw)
    \/ \E n \in PlatformNames, raw \in SampleHandles, o \in HttpOutcomes :
            CheckSocial(n, raw, o)

Spec == Init /\ [][Next]_vars

(***************************************************************************)
(* check_name up to the end of its fan-out, on every name of at most       *)
(* MaxNameLen characters over NameAlphabet.                                *)
(***************************************************************************)
RECURSIVE Strings(_, _)
Strings(alphabet, n) ==
    IF n = 0 THEN {""}
    ELSE LET shorter == Strings(alphabet, n - 1)
         IN shorter \cup {s \o c : s \in shorter, c \in alphabet}

NameAlphabet == {"a", "Z", "7", "-", " "}
Names == Strings(NameAlphabet, MaxNameLen)

NextNames ==
    \/ \E name \in Names : CheckNameReject(name)
    \/ \E name \in Names : CheckNameFanOut(name)

SpecNames == Init /\ [][NextNames]_vars

(***************************************************************************)
(* check_social_platform called directly, lines 188-286, on the configured *)
(* platforms and on descriptors with other names.                          *)
(***************************************************************************)
Classify(name, handle, o) ==
    /\ pc = "idle"
    /\ request' = [route |-> "check_social_platform", platform |-> name,
                   handle |-> handle]
    /\ invoked' = <<[method |-> "get", outcome |-> o,
                     result |-> check_social_platform(name, handle, o)]>>
    /\ pc' = "done"
    /\ UNCHANGED <<response, results, future, call, cursor, waited>>

NextClassify ==
    \E name \in PlatformNames, o \in HttpOutcomes : Classify(name, "myco", o)

SpecClassify == Init /\ [][NextClassify]_vars

(***************************************************************************)
(* The work items of one /api/check request with the DNS step of the       *)
(* domain checks made visible.  check_domain_dns starts with               *)
(* socket.setdefaulttimeout(5) (line 125), which assigns the default       *)
(* timeout of the socket module, a variable of the whole process.  Here    *)
(* every future is collected with its result.                              *)
(***************************************************************************)
\* lines 177 and 125: the domain check k, run by a pool thread, has found
\* RDAP and WHOIS inconclusive and enters check_domain_dns
TaskDns(k) ==
    /\ pc = "collect"
    /\ k \in Range(DOMAIN_EXTENSIONS)
    /\ future[k] = "running"
    /\ \A i \in 1..Len(invoked) : invoked[i].task # k
    /\ Len(invoked) < MaxDnsCalls
    /\ invoked' = Append(invoked, [method |-> "socket.setdefaulttimeout",
                                   task |-> k, value |-> 5])
    /\ UNCHANGED <<pc, request, response, results, future, call, cursor, waited>>

NextTasks ==
    \/ \E name \in SampleNames : CheckNameReject(name)
    \/ \E name \in SampleNames : CheckNameFanOut(name)
    \/ \E k \in TaskSet : Start(k)
    \/ \E k \in TaskSet : TaskDns(k)
    \/ \E k \in TaskSet : Finish(k)
    \/ \E k \in TaskSet : CollectResult(k)
    \/ Return

SpecTasks == Init /\ [][NextTasks]_vars

(***************************************************************************)
(* Similar domains, lines 291-324.                                         *)
(***************************************************************************)
MAX_DISTANCE == 3
MAX_SIMILAR == 8

Min3(x, y, z) ==
    IF x <= y /\ x <= z THEN x ELSE IF y <= z THEN y ELSE z

RECURSIVE FillRowNoSubstitution(_, _, _, _, _)
\* a row filled without the diagonal neighbour
FillRowNoSubstitution(a, b, i, prev, cur) ==
    IF Len(cur) = Len(b) + 1 THEN cur
    ELSE LET j == Len(cur) IN
         FillRowNoSubstitution(a, b, i, prev,
                 Append(cur, IF Char(a, i) = Char(b, j) THEN prev[j]
                             ELSE 1 + Min3(prev[j + 1], cur[j], prev[j + 1])))

RECURSIVE FillRow(_, _, _, _, _)
\* lines 322-323: row i of dp from row i - 1; column j is at index j + 1
FillRow(a, b, i, prev, cur) ==
    IF Len(cur) = Len(b) + 1 THEN cur
    ELSE LET j == Len(cur) IN
         FillRow(a, b, i, prev,
                 Append(cur, IF Char(a, i) = Char(b, j) THEN prev[j]
                             ELSE 1 + Min3(prev[j + 1], cur[j], prev[j])))

RECURSIVE Rows(_, _, _, _)
\* lines 317-323: dp[i][0] = i, rows 1..m filled in order
Rows(a, b, i, prev) ==
    IF i > Len(a) THEN prev
    ELSE Rows(a, b, i + 1, FillRow(a, b, i, prev, <<i>>))

\* lines 314-324
levenshtein(a, b) ==
    Rows(a, b, 1, [j \in 1..(Len(b) + 1) |-> j - 1])[Len(b) + 1]

RECURSIVE BeforeDot(_)
\* line 304: s.split(".")[0]
BeforeDot(s) ==
    IF s = "" \/ Char(s, 1) = "." THEN ""
    ELSE Char(s, 1) \o BeforeDot(SubSeq(s, 2, Len(s)))

\* a filter that lets the exact match through
QualifiesWithExact(dist) == dist <= MAX_DISTANCE

\* line 306: 0 < dist <= 3
Qualifies(dist) == 0 < dist /\ dist <= MAX_DISTANCE

RECURSIVE Matches(_, _, _)
\* lines 302-307; raised when an entry has no "domain"
Matches(handle, domains, acc) ==
    IF acc.raised \/ domains = <<>> THEN acc
    ELSE LET d == Head(domains) IN
         IF "domain" \notin DOMAIN d THEN [acc EXCEPT !.raised = TRUE]
         ELSE LET dist == levenshtein(handle, BeforeDot(d.domain)) IN
              Matches(handle, Tail(domains),
                      IF Qualifies(dist)
                      THEN [acc EXCEPT !.results =
                                Append(@, [domain |-> d.domain, distance |-> dist])]
                      ELSE acc)

RECURSIVE InsertByDistance(_, _)
InsertByDistance(sorted, x) ==
    IF sorted = <<>> THEN <<x>>
    ELSE IF Head(sorted).distance <= x.distance
    THEN <<Head(sorted)>> \o InsertByDistance(Tail(sorted), x)
    ELSE <<x>> \o sorted

RECURSIVE SortFrom(_, _)
SortFrom(rest, sorted) ==
    IF rest = <<>> THEN sorted
    ELSE SortFrom(Tail(rest), InsertByDistance(sorted, Head(rest)))

\* a ranking that leaves the matches in the order of the index
SortSkipped(matches) == matches

\* line 308: results.sort(key=lambda x: x["distance"]), a stable sort
SortByDistance(matches) == SortFrom(matches, <<>>)

\* lines 291-311
find_similar_domains(handle, o) ==
    IF o.kind = "exception" THEN <<>>
    ELSE IF o.status_code # 200 THEN <<>>
    ELSE IF ~o.body.json THEN <<>>
    ELSE LET found == Matches(handle, Get(o.body.value, "domains", <<>>),
                              [results |-> <<>>, raised |-> FALSE])
         IN IF found.raised THEN <<>>
            ELSE Take(SortByDistance(found.results), MAX_SIMILAR)

\* what the index may return for one entry: labels at distance 0 to 4 from
\* "ab", one with two dots, and an entry without a "domain"
IndexEntries ==
    {[domain |-> d] : d \in {"ab.com", "abc.com", "abx.co.uk", "abcd.com",
                             "abcde.com", "abcdef.com"}}
    \cup {[name |-> "ab.com"]}

RECURSIVE SeqsUpTo(_, _)
SeqsUpTo(S, n) ==
    IF n = 0 THEN {<<>>}
    ELSE LET shorter == SeqsUpTo(S, n - 1)
         IN shorter \cup {Append(s, x) : s \in shorter, x \in S}

\* the end of the list: nothing, or seven more domains at distance 2 from "ab"
IndexTails ==
    { <<>>,
      [i \in 1..7 |-> [domain |-> "abzz.com"]] }

IndexLists == {p \o t : p \in SeqsUpTo(IndexEntries, MaxIndexLen), t \in IndexTails}

IndexOutcomes ==
    {[kind |-> "response", status_code |-> 200,
      body |-> [json |-> TRUE, value |-> [domains |-> l]]] : l \in IndexLists}
    \cup { [kind |-> "response", status_code |-> 200, body |-> [json |-> TRUE, value |-> <<>>]],
           [kind |-> "response", status_code |-> 200, body |-> [json |-> FALSE]],
           [kind |-> "response", status_code |-> 500, body |-> [json |-> FALSE]],
           [kind |-> "exception", message |-> "Read timed out."] }

SampleSimilarHandles == {"ab", "abc"}

\* one call of find_similar_domains
FindSimilar(handle, o) ==
    /\ pc = "idle"
    /\ request' = [route |-> "find_similar_domains", handle |-> handle]
    /\ invoked' = <<[method |-> "get", outcome |-> o,
                     result |-> find_similar_domains(handle, o)]>>
    /\ pc' = "done"
    /\ UNCHANGED <<response, results, future, call, cursor, waited>>

NextSimilar ==
    \E handle \in SampleSimilarHandles, o \in IndexOutcomes : FindSimilar(handle, o)

SpecSimilar == Init /\ [][NextSimilar]_vars

(***************************************************************************)
(* levenshtein, lines 314-324, on every triple of strings of at most       *)
(* MaxWordLen characters over WordAlphabet.                                *)
(***************************************************************************)
WordAlphabet == {"a", "b"}
Words == Strings(WordAlphabet, MaxWordLen)

Measure(a, b, c) ==
    /\ pc = "idle"
    /\ request' = [route |-> "levenshtein", a |-> a, b |-> b, c |-> c]
    /\ invoked' = <<[method |-> "levenshtein",
                     result |-> [ab |-> levenshtein(a, b), ba |-> levenshtein(b, a),
                                 aa |-> levenshtein(a, a), bc |-> levenshtein(b, c),
                                 ac |-> levenshtein(a, c)]]>>
    /\ pc' = "done"
    /\ UNCHANGED <<response, results, future, call, cursor, waited>>

NextLevenshtein == \E a \in Words, b \in Words, c \in Words : Measure(a, b, c)

SpecLevenshtein == Init /\ [][NextLevenshtein]_vars

(***************************************************************************)
(* Properties.                                                             *)
(***************************************************************************)
InCheckDomain == request.route = "/api/check-domain"
InCheckName == request.route = "/api/check"
InCheckSocial == request.route = "/api/check-social"

\* the result dict inside the body of a /api/check-domain response
Returns(result) ==
    /\ response.code = 200
    /\ response.body.status = result.status
    /\ response.body.method = result.method
    /\ response.body.details = result.details

IsConclusive(entry) == entry.result.status \in {"taken", "available"}

\* C1: in the cascade of check_domain, once RDAP has returned Taken or
\* Available neither WHOIS nor DNS is invoked, once WHOIS has returned Taken
\* or Available DNS is not invoked, and what check_domain returns is the
\* result of the first step that was conclusive.
C1_ShortCircuit ==
    InCheckDomain =>
        \A i \in 1..Len(invoked) :
            IsConclusive(invoked[i]) =>
                /\ Len(invoked) = i
                /\ invoked[i].method = <<"rdap", "whois", "dns">>[i]
                /\ Returns(invoked[i].result)

\* C1 witness: RDAP answered 404 and check_domain returned after one call
C1_Witness ==
    /\ InCheckDomain
    /\ pc = "done"
    /\ Len(invoked) = 1
    /\ invoked[1].method = "rdap"
    /\ invoked[1].result.status = "available"
    /\ Returns(invoked[1].result)

\* C2: the report of an accepted /api/check request has exactly the six
\* configured extensions as keys of its domain results and exactly the
\* seven configured platforms as keys of its social results; while the
\* report is being built its keys are exactly the slots collected so far.
C2_AllKeysPresent ==
    InCheckName =>
        /\ DOMAIN results.domains = Collected \cap Range(DOMAIN_EXTENSIONS)
        /\ DOMAIN results.social = Collected \cap Range(SOCIAL_PLATFORMS)
        /\ response.code = 200 =>
            /\ DOMAIN response.body.domains = Range(DOMAIN_EXTENSIONS)
            /\ DOMAIN response.body.social = Range(SOCIAL_PLATFORMS)
            /\ Cardinality(DOMAIN response.body.domains) = 6
            /\ Cardinality(DOMAIN response.body.social) = 7

\* C2 witness: a report is returned in which one slot was filled after an
\* expired wait and another after its work item raised, beside real results
C2_Witness ==
    /\ InCheckName
    /\ response.code = 200
    /\ response.body.domains[".com"] = TIMEOUT_RESULT
    /\ response.body.social["Instagram"] = TIMEOUT_RESULT
    /\ waited = DOMAIN_RESULT_TIMEOUT
    /\ response.body.social["TikTok"] = ResultOf(call["TikTok"])

\* the slot of work item k in a report
SlotIn(report, k) ==
    IF k \in Range(DOMAIN_EXTENSIONS) THEN report.domains[k]
    ELSE IF k \in Range(SOCIAL_PLATFORMS) THEN report.social[k]
    ELSE report.similar

Synthetic(k) ==
    IF k = "similar" THEN <<>> ELSE [status |-> "unknown", method |-> "timeout"]

\* C3: when the wait on a future that is not done expires, its slot gets
\* Unknown/"timeout" (the empty sequence for the similarity search) and the
\* request goes on; a slot holding the synthesized result keeps it in every
\* later step, also when its work item completes, and in the report sent.
C3_TimeoutKept ==
    [][InCheckName =>
        \A k \in TaskSet :
            /\ (k \in Awaited /\ future[k] \in {"queued", "running"} /\ cursor' = cursor + 1)
                => /\ SlotIn(results, k)' = Synthetic(k)
                   /\ pc' \in {"collect", "exit"}
                   /\ response' = NoResponse
            /\ (k \in Collected /\ SlotIn(results, k) = Synthetic(k))
                => /\ SlotIn(results, k)' = Synthetic(k)
                   /\ response'.code = 200 => SlotIn(response'.body, k) = Synthetic(k)
    ]_vars

\* C3 witness: the only synthesized slot of a returned report comes from an
\* expired wait, and its work item has completed since
C3_Witness ==
    /\ InCheckName
    /\ response.code = 200
    /\ SynthesizedSlots = {".com"}
    /\ waited = DOMAIN_RESULT_TIMEOUT
    /\ future[".com"] = "finished"
    /\ response.body.domains[".com"] = TIMEOUT_RESULT

\* C4: every slot of the report, and the report as a whole, is delivered
\* within one collection bound of the start of collection, however many
\* work items are slow.
C4_WithinOneBound ==
    InCheckName => waited <= DOMAIN_RESULT_TIMEOUT

\* C5: once every slot of the report has a result, check_name can return
\* it, also while a work item it has given up on is still running.
C5_ReturnsOnceFilled ==
    (InCheckName /\ pc = "exit") => ENABLED Return

\* C6: no response of /api/check-domain carries "likely_available": the
\* verdict is taken, available or unknown, and a name-not-found DNS outcome
\* after two inconclusive steps is returned as available / "dns_inferred";
\* a domain slot of a /api/check report is what check_domain returned or
\* the synthesized Unknown.
C6_NoLikelyAvailable ==
    /\ (InCheckDomain /\ response.code = 200)
        => response.body.status \in {"taken", "available", "unknown"}
    /\ (InCheckDomain /\ Len(invoked) = 3 /\ invoked[3].outcome.kind = "gaierror")
        => /\ response.code = 200
           /\ response.body.status = "available"
           /\ response.body.method = "dns_inferred"
    /\ InCheckName =>
        \A k \in DOMAIN results.domains :
            results.domains[k] \in
                { [status |-> "unknown", method |-> "timeout"],
                  [returned_by |-> <<"check_domain", results.handle \o k>>] }

\* C6 witness: RDAP and WHOIS were inconclusive, DNS found no such name
C6_Witness ==
    /\ InCheckDomain
    /\ Len(invoked) = 3
    /\ invoked[1].result.status = "unknown"
    /\ invoked[2].result.status = "unknown"
    /\ invoked[3].outcome.kind = "gaierror"
    /\ response.body.method = "dns_inferred"

AllWhitespace(s) == \A i \in 1..Len(s) : Char(s, i) \in WHITESPACE
HasAlnum(s) == \E i \in 1..Len(s) : InClass_a_z0_9(LowerChar(Char(s, i)))

\* C7: a name that is empty after trimming, or has no character of [a-z0-9]
\* after lowercasing, is answered 400 with an error message, and nothing
\* has been scheduled or looked up in that request.
C7_RejectedBeforeProbing ==
    (InCheckName /\ (AllWhitespace(request.name) \/ ~HasAlnum(request.name))) =>
        /\ pc = "done"
        /\ response.code = 400
        /\ DOMAIN response.body = {"error"}
        /\ \A k \in TaskSet : future[k] = "none" /\ call[k] = <<>>
        /\ results = NoResults
        /\ invoked = <<>>

\* C7 witness: a name of punctuation only is rejected by the second check
C7_Witness ==
    /\ InCheckName
    /\ request.name = "- -"
    /\ response.code = 400
    /\ response.body.error = "Name must contain alphanumeric characters"

\* C8: normalization is idempotent; on a name with an alphanumeric
\* character it gives a non-empty string over [a-z0-9]; every domain work
\* item is submitted on that handle followed by its extension and every
\* social work item on that handle.
C8_Normalization ==
    InCheckName =>
        LET handle == Normalize(request.name) IN
        /\ Normalize(handle) = handle
        /\ HasAlnum(request.name) =>
            /\ handle # ""
            /\ \A i \in 1..Len(handle) : InClass_a_z0_9(Char(handle, i))
            /\ pc = "collect"
            /\ results.handle = handle
            /\ \A k \in Range(DOMAIN_EXTENSIONS) :
                    future[k] = "queued" /\ call[k] = <<"check_domain", handle \o k>>
            /\ \A k \in Range(SOCIAL_PLATFORMS) :
                    future[k] = "queued" /\ call[k] = <<"check_social_platform", k, handle>>

\* C8 witness: a name with an uppercase letter, punctuation and a digit
C8_Witness ==
    /\ InCheckName
    /\ request.name = "Z-7"
    /\ results.handle = "z7"
    /\ call[".com"] = <<"check_domain", "z7.com">>
    /\ call["Threads"] = <<"check_social_platform", "Threads", "z7">>

\* C9: when RDAP, WHOIS and DNS are all inconclusive check_domain returns
\* Unknown / "all_failed"; whatever fails inside a method, every method
\* returns a dict and a finished check_domain has returned a verdict.
C9_AllFailed ==
    (InCheckDomain /\ request.domain # "") =>
        /\ \A i \in 1..Len(invoked) :
                invoked[i].result.status \in
                    {"taken", "available", "likely_available", "unknown"}
        /\ pc = "done" =>
                /\ response.code = 200
                /\ response.body.status \in {"taken", "available", "unknown"}
        /\ (Len(invoked) = 3 /\ \A i \in 1..3 : invoked[i].result.status = "unknown")
            => /\ response.code = 200
               /\ response.body.status = "unknown"
               /\ response.body.method = "all_failed"
               /\ response.body.details = <<>>

\* C9 witness: each of the three lookups raised
C9_Witness ==
    /\ InCheckDomain
    /\ Len(invoked) = 3
    /\ \A i \in 1..3 : invoked[i].outcome.kind = "exception"
    /\ response.body.method = "all_failed"

\* C10: check_social_platform returns one result for every outcome of its
\* GET, with verdict taken, available or unknown; a timeout gives
\* Unknown/"timeout", a connection failure that is no timeout gives
\* Unknown/"connection_error", any other exception Unknown/"error".
C10_SocialAlwaysReturns ==
    (InCheckSocial /\ pc = "done" /\ request.platform \in Range(SOCIAL_PLATFORMS)) =>
        /\ response.code = 200
        /\ response.body.status \in {"taken", "available", "unknown"}
        /\ Len(invoked) = 1
        /\ LET o == invoked[1].outcome IN
            o.kind = "exception" =>
                /\ response.body.status = "unknown"
                /\ "Timeout" \in o.classes => response.body.method = "timeout"
                /\ ("ConnectionError" \in o.classes /\ "Timeout" \notin o.classes)
                        => response.body.method = "connection_error"
                /\ o.classes = {} => response.body.method = "error"

\* C10 witness: the connection to the platform was refused
C10_Witness ==
    /\ InCheckSocial
    /\ Len(invoked) = 1
    /\ invoked[1].outcome.kind = "exception"
    /\ invoked[1].outcome.classes = {"ConnectionError"}
    /\ response.body.method = "connection_error"

\* C11: for Instagram every 404 gives Available/"http_404", every 200 whose
\* final URL contains /accounts/login gives Unknown/"login_redirect", and
\* every other 200 gives Taken/"http_200", whatever the body.
C11_Instagram ==
    (/\ InCheckSocial /\ pc = "done" /\ request.platform = "Instagram"
     /\ Len(invoked) = 1 /\ invoked[1].outcome.kind = "response") =>
        LET o == invoked[1].outcome
            login == \E i \in 1..Len(o.url) :
                        /\ i + 14 <= Len(o.url)
                        /\ SubSeq(o.url, i, i + 14) = "/accounts/login"
        IN /\ o.status_code = 404 =>
                /\ response.body.status = "available"
                /\ response.body.method = "http_404"
           /\ (o.status_code = 200 /\ login) =>
                /\ response.body.status = "unknown"
                /\ response.body.method = "login_redirect"
           /\ (o.status_code = 200 /\ ~login) =>
                /\ response.body.status = "taken"
                /\ response.body.method = "http_200"

\* C11 witness: Instagram answered 200 after redirecting to its login page,
\* with a body that does not mention the login path
C11_Witness ==
    /\ InCheckSocial /\ pc = "done" /\ request.platform = "Instagram"
    /\ Len(invoked) = 1
    /\ invoked[1].outcome.kind = "response"
    /\ invoked[1].outcome.status_code = 200
    /\ invoked[1].outcome.url = "https://www.instagram.com/accounts/login/?next=/myco/"
    /\ invoked[1].outcome.text = "<html>MyCo</html>"
    /\ response.body.method = "login_redirect"

\* C20: an HTTP 200 from the RDAP endpoint makes check_domain return
\* Taken/"rdap" whatever the body is; WHOIS and DNS are not invoked, and the
\* body only decides which of registrar, registered, expires are in details.
C20_Rdap200IsTaken ==
    (/\ InCheckDomain /\ Len(invoked) >= 1
     /\ invoked[1].outcome.kind = "response"
     /\ invoked[1].outcome.status_code = 200) =>
        /\ Len(invoked) = 1
        /\ pc = "done"
        /\ response.code = 200
        /\ response.body.status = "taken"
        /\ response.body.method = "rdap"
        /\ DOMAIN response.body.details \subseteq {"registrar", "registered", "expires"}
        /\ ~invoked[1].outcome.body.json => response.body.details = <<>>

\* C20 witness: the 200 response had a body that is not JSON
C20_Witness ==
    /\ InCheckDomain /\ pc = "done" /\ Len(invoked) = 1
    /\ invoked[1].outcome.kind = "response"
    /\ invoked[1].outcome.status_code = 200
    /\ ~invoked[1].outcome.body.json
    /\ response.body.status = "taken"
    /\ response.body.details = <<>>

\* the fn fields of the registrar entities of an RDAP body, in document order
FnFields(j) ==
    LET entities == Get(j, "entities", <<>>)
        IsFn(e, n) ==
            /\ Has(Get(entities[e], "roles", <<>>), "registrar")
            /\ "vcardArray" \in DOMAIN entities[e]
            /\ Len(entities[e].vcardArray) >= 2
            /\ n \in 1..Len(entities[e].vcardArray[2])
            /\ Len(entities[e].vcardArray[2][n]) >= 4
            /\ entities[e].vcardArray[2][n][1] = "fn"
    IN [entities |-> entities,
        at |-> {<<e, n>> \in (1..Len(entities)) \X (1..8) : IsFn(e, n)}]

\* the first of them
FirstFn(j) ==
    LET f == FnFields(j)
        p == CHOOSE p \in f.at :
                \A q \in f.at : p[1] < q[1] \/ (p[1] = q[1] /\ p[2] <= q[2])
    IN f.entities[p[1]].vcardArray[2][p[2]][4]

\* the dates of the events of an RDAP body with the given action, cut to 10 characters
EventDates(j, action) ==
    LET events == Get(j, "events", <<>>)
    IN {Take(Get(events[i], "eventDate", ""), 10) :
            i \in {n \in 1..Len(events) : Get(events[n], "eventAction", "") = action}}

\* C12: after an HTTP 200 from the RDAP endpoint the registrar in details is
\* the first fn field of a registrar entity, and registered / expires are the
\* first 10 characters of the registration / expiration event dates.
C12_FirstFn ==
    (/\ InCheckDomain /\ pc = "done" /\ Len(invoked) = 1
     /\ invoked[1].outcome.kind = "response"
     /\ invoked[1].outcome.status_code = 200
     /\ invoked[1].outcome.body.json) =>
        LET j == invoked[1].outcome.body.value
            details == response.body.details
        IN /\ response.body.status = "taken"
           /\ "registrar" \in DOMAIN details =>
                /\ FnFields(j).at # {}
                /\ details.registrar = FirstFn(j)
           /\ "registered" \in DOMAIN details =>
                details.registered \in EventDates(j, "registration")
           /\ "expires" \in DOMAIN details =>
                details.expires \in EventDates(j, "expiration")
           /\ (/\ FnFields(j).at # {}
               /\ FirstFn(j) = "Example Registrar Inc."
               /\ EventDates(j, "registration") = {"2020-01-15"}) =>
                /\ details.registrar = "Example Registrar Inc."
                /\ details.registered = "2020-01-15"

\* the query signalled that there is no such domain
SignalsNoMatch(o) ==
    /\ o.kind = "exception"
    /\ \E marker \in {"no match", "not found", "no entries"} :
            Contains(Lower(o.message), marker)

\* C16: in the WHOIS step a record with a populated domain-name field gives
\* Taken/"whois", an explicit "no match" / "not found" / "no entries" gives
\* Available/"whois", and every other outcome, a record without a domain
\* name included, is inconclusive: the DNS step runs and decides the result.
C16_WhoisStep ==
    (InCheckDomain /\ Len(invoked) >= 2) =>
        LET o == invoked[2].outcome
            result2 == invoked[2].result
            populated == o.kind = "record" /\ o.domain_name # <<>>
        IN /\ invoked[2].method = "whois"
           /\ populated => (result2.status = "taken" /\ result2.method = "whois")
           /\ SignalsNoMatch(o) =>
                (result2.status = "available" /\ result2.method = "whois")
           /\ (~populated /\ ~SignalsNoMatch(o)) =>
                /\ result2.status = "unknown"
                /\ pc \in {"dns", "done"}
                /\ pc = "done" =>
                    /\ Len(invoked) = 3
                    /\ invoked[3].method = "dns"
                    /\ response.body.method \in {"dns", "dns_inferred", "all_failed"}

\* C18: one domain resolution invokes each method at most once, in the order
\* RDAP, WHOIS, DNS, each after the one before it was inconclusive; one
\* /api/check request has exactly one work item per extension, per platform
\* and for the similarity index, and a work item never runs a second time.
C18_NoRetry ==
    /\ [](InCheckDomain =>
            /\ Len(invoked) <= 3
            /\ \A i \in 1..Len(invoked) :
                /\ invoked[i].method = <<"rdap", "whois", "dns">>[i]
                /\ i > 1 => invoked[i - 1].result.status \notin {"taken", "available"})
    /\ []((InCheckName /\ pc \in {"collect", "exit"}) =>
            /\ \A k \in TaskSet : future[k] # "none"
            /\ \A ext \in Range(DOMAIN_EXTENSIONS) :
                {k \in TaskSet : call[k] = <<"check_domain", results.handle \o ext>>}
                    = {ext}
            /\ \A p \in Range(SOCIAL_PLATFORMS) :
                {k \in TaskSet : call[k] = <<"check_social_platform", p, results.handle>>}
                    = {p}
            /\ {k \in TaskSet : call[k][1] = "find_similar_domains"} = {"similar"})
    /\ [][\A k \in TaskSet :
            /\ future[k] = "running" => future'[k] \in {"running", "finished"}
            /\ future[k] = "finished" => future'[k] = "finished"
            /\ future[k] # "none" => call'[k] = call[k]]_vars

\* C18 witness: a resolution that made all three lookups, decided by DNS
C18_Witness ==
    /\ InCheckDomain /\ pc = "done"
    /\ Len(invoked) = 3
    /\ invoked[3].method = "dns"
    /\ invoked[3].result.status = "taken"
    /\ Returns(invoked[3].result)

InClassify == request.route = "check_social_platform"

\* C19: for the seven configured platforms and for a descriptor with any
\* other name, a 404 gives Available/"http_404" whatever the final URL and
\* the body; a status other than 200 and 404 gives Unknown, tagged
\* "http_<status>" by the generic fallback (X tags 301, 302, 303 "redirect").
C19_Uniform404 ==
    (InClassify /\ pc = "done" /\ invoked[1].outcome.kind = "response") =>
        LET o == invoked[1].outcome
            result == invoked[1].result
        IN /\ o.status_code = 404 => result = Verdict("available", "http_404")
           /\ o.status_code \notin {200, 404} =>
                /\ result.status = "unknown"
                /\ IF request.platform = "X (Twitter)" /\ o.status_code \in {301, 302, 303}
                   THEN result.method = "redirect"
                   ELSE result.method = "http_" \o StatusText(o.status_code)

\* C19 witness: a descriptor that is not configured got a 403
C19_Witness ==
    /\ InClassify /\ pc = "done"
    /\ request.platform = "Mastodon"
    /\ invoked[1].outcome.kind = "response"
    /\ invoked[1].outcome.status_code = 403
    /\ invoked[1].result = Verdict("unknown", "http_403")

\* the work items that have assigned the process-wide default socket timeout
DefaultTimeoutWriters ==
    {invoked[i].task :
        i \in {n \in 1..Len(invoked) : invoked[n].method = "socket.setdefaulttimeout"}}

\* C17: no process-wide variable is written by two different work items,
\* and each slot of the report is written once, by the handler of its own
\* request as it collects the futures.
C17_NoSharedWrites ==
    (InCheckName /\ pc \in {"collect", "exit", "done"} /\ response.code # 400) =>
        /\ Cardinality(DefaultTimeoutWriters) <= 1
        /\ DOMAIN results.domains = Collected \cap Range(DOMAIN_EXTENSIONS)
        /\ DOMAIN results.social = Collected \cap Range(SOCIAL_PLATFORMS)

InFindSimilar == request.route = "find_similar_domains"

RECURSIVE EditDistance(_, _)
\* the unit-cost insertion / deletion / substitution distance, by its
\* recursive definition
EditDistance(a, b) ==
    IF a = "" THEN Len(b)
    ELSE IF b = "" THEN Len(a)
    ELSE LET ta == SubSeq(a, 2, Len(a))
             tb == SubSeq(b, 2, Len(b))
         IN IF Char(a, 1) = Char(b, 1) THEN EditDistance(ta, tb)
            ELSE 1 + Min3(EditDistance(ta, b), EditDistance(a, tb), EditDistance(ta, tb))

\* the label before the first dot
Label(domain) ==
    IF \E i \in 1..Len(domain) : Char(domain, i) = "."
    THEN SubSeq(domain, 1, (CHOOSE i \in 1..Len(domain) :
                                /\ Char(domain, i) = "."
                                /\ \A n \in 1..(i - 1) : Char(domain, n) # ".") - 1)
    ELSE domain

\* C13: every match find_similar_domains returns is at edit distance 1, 2 or
\* 3 from the handle, and no returned domain has the handle itself as the
\* label before its first dot.
C13_DistanceInRange ==
    (InFindSimilar /\ pc = "done") =>
        \A i \in 1..Len(invoked[1].result) :
            LET match == invoked[1].result[i] IN
            /\ match.distance \in 1..3
            /\ match.distance = EditDistance(request.handle, Label(match.domain))
            /\ Label(match.domain) # request.handle

\* C13 witness: the index listed the exact match "ab.com" for the handle
\* "ab" next to a near match, and only the near match was returned
C13_Witness ==
    /\ InFindSimilar /\ pc = "done"
    /\ request.handle = "ab"
    /\ invoked[1].outcome.kind = "response"
    /\ invoked[1].outcome.body.json
    /\ Get(invoked[1].outcome.body.value, "domains", <<>>)
            = <<[domain |-> "ab.com"], [domain |-> "abx.co.uk"]>>
    /\ invoked[1].result = <<[domain |-> "abx.co.uk", distance |-> 1]>>

\* the index answered with a list in which every entry has a domain
WellFormedIndex ==
    /\ invoked[1].outcome.kind = "response"
    /\ invoked[1].outcome.status_code = 200
    /\ invoked[1].outcome.body.json
    /\ \A i \in 1..Len(Get(invoked[1].outcome.body.value, "domains", <<>>)) :
            "domain" \in DOMAIN invoked[1].outcome.body.value.domains[i]

\* how many listed domains are at a distance in 1..t from the handle
ListedWithin(t) ==
    LET domains == Get(invoked[1].outcome.body.value, "domains", <<>>)
    IN Cardinality({i \in 1..Len(domains) :
            EditDistance(request.handle, Label(domains[i].domain)) \in 1..t})

\* how many returned matches are at a distance of at most t
ReturnedWithin(t) ==
    Cardinality({i \in 1..Len(invoked[1].result) : invoked[1].result[i].distance <= t})

\* C14: what find_similar_domains returns is ascending by distance and has
\* at most 8 entries; for each distance t the number of returned matches
\* within t is the number of listed domains within t, or 8 if there are
\* more, so no omitted domain is closer than a returned one.
C14_SortedAndCapped ==
    (InFindSimilar /\ pc = "done") =>
        LET result == invoked[1].result IN
        /\ Len(result) <= 8
        /\ \A i \in 1..Len(result) : \A n \in 1..Len(result) :
                i < n => result[i].distance <= result[n].distance
        /\ WellFormedIndex =>
            \A t \in 1..3 :
                ReturnedWithin(t) = IF ListedWithin(t) < 8 THEN ListedWithin(t) ELSE 8

\* C14 witness: ten listed domains qualified, three of them at distance 1
\* and seven at distance 2: the three come first and two at distance 2
\* are left out
C14_Witness ==
    /\ InFindSimilar /\ pc = "done"
    /\ request.handle = "ab"
    /\ WellFormedIndex
    /\ ListedWithin(3) = 10
    /\ ListedWithin(1) = 3
    /\ Len(invoked[1].result) = 8
    /\ invoked[1].result[3].distance = 1
    /\ invoked[1].result[4].distance = 2

InLevenshtein == request.route = "levenshtein"

\* C15: levenshtein is symmetric, zero on equal arguments, satisfies the
\* triangle inequality, and equals the unit-cost insertion / deletion /
\* substitution edit distance.
C15_Metric ==
    (InLevenshtein /\ pc = "done") =>
        LET d == invoked[1].result IN
        /\ d.ab = d.ba
        /\ d.aa = 0
        /\ d.ac <= d.ab + d.bc
        /\ d.ab = EditDistance(request.a, request.b)
        /\ d.ab = 0 => request.a = request.b

\* C15 witness: "ab" and "ba" are two substitutions apart, and the way from
\* "ab" to "ba" through "b" is no shorter
C15_Witness ==
    /\ InLevenshtein /\ pc = "done"
    /\ request.a = "ab" /\ request.b = "b" /\ request.c = "ba"
    /\ invoked[1].result.ab = 1
    /\ invoked[1].result.bc = 1
    /\ invoked[1].result.ac = 2

====
